---- MODULE Spec2Model ----
(***************************************************************************)
(* Model of the batch / cache / checkpoint pipeline of                     *)
(* src/Breakout_AI_Task/main.py (class AllInOne) together with the parts   *)
(* of WebScrapper.py and kg.py it drives.                                  *)
(*                                                                         *)
(* One run is AllInOne.__call__: a loop over consecutive batches; each     *)
(* batch is an asyncio.gather over one coroutine per Search Key.  A        *)
(* coroutine has exactly one suspension point, the awaited fetch           *)
(* (main.py:110 -> main.py:93); everything before it (the cache lookup)    *)
(* and everything after it (query, cleanup, cache store, return) runs      *)
(* without yielding to the event loop, so each is one atomic step.         *)
(*                                                                         *)
(* The /process route of src/Breakout_AI_Task/app.py, which saves the      *)
(* uploaded table under uploads/ and hands it to an AllInOne, is modelled  *)
(* by the actions save_upload, validate and process (SpecApp).             *)
(***************************************************************************)
EXTENDS Integers, Sequences, FiniteSets, TLC

(***************************************************************************)
(* Bounds of the model.                                                    *)
(***************************************************************************)
MaxRows == 2
MaxRowsLong == 7
MaxBatch == 2
MaxWorkers == 1
MaxRuns == 2
\* external calls that fail in one behaviour (over all its runs)
MaxFaults == 2
MaxFaultsLong == 1
\* /process requests in one behaviour
MaxRequests == 3

(***************************************************************************)
(* Search Keys (main.py:67, "<row text> <suffix>") and the texts the       *)
(* Answering Engine may return.  The engine is an LLM sampled at           *)
(* temperature 0.1 (kg.py:24), so its text is an input of the model.       *)
(***************************************************************************)
Keys == {"acme ceo", "globex ceo"}
LongKeys == {"acme ceo"}
Answers == {"a1", "a2"}

\* main.py:148, the stride (in batches) of the intermediate save
CheckpointStride == 5

(***************************************************************************)
(* Values.  Every answer-like value is a record of one shape so that       *)
(* values of different kinds can be compared.                              *)
(***************************************************************************)
\* str(response) of kg.py:93
Answer(a) == [kind |-> "answer", key |-> "", text |-> a]
\* main.py:124, f"Error processing {search}: {str(e)}"
ErrorString(search, detail) == [kind |-> "error", key |-> search, text |-> detail]
\* main.py:149, the '' a checkpoint holds for a row not yet computed
Placeholder == [kind |-> "empty", key |-> "", text |-> ""]
\* a task whose coroutine has not returned has no result
NoResult == [kind |-> "none", key |-> "", text |-> ""]
\* an exception that leaves the coroutine (what gather would re-raise)
Exception(search, detail) == [kind |-> "exception", key |-> search, text |-> detail]
\* cache file states: missing, present but not unpicklable
NoEntry == [kind |-> "absent", key |-> "", text |-> ""]
Corrupt == [kind |-> "corrupt", key |-> "", text |-> ""]

AnswerValues == {Answer(a) : a \in Answers}

(***************************************************************************)
(* main.py:76-88: the cache file of a Search Key is                        *)
(* cache/search_<first 10 hex digits of md5(search)>.pkl; the digests      *)
(* below are those of the two keys.                                        *)
(***************************************************************************)
_get_cache_filename(search) ==
    CASE search = "acme ceo"   -> "cache/search_05e4bec68e.pkl"
      [] search = "globex ceo" -> "cache/search_b05b42eb05.pkl"

CacheFiles == {_get_cache_filename(k) : k \in Keys}

\* main.py:114 and WebScrapper.py:156, the artifact of a Search Key
data_file(search) == "data/" \o search \o ".md"

VARIABLES
    searches,     \* self.searches, the Search Keys in row order
    batch_size,   \* self.batch_size
    max_workers,  \* self.max_workers
    cache,        \* the files of cache_dir: file name -> content
    dataDir,      \* the .md files present in the working directory data/
    pc,           \* position of __call__: "loop", "gather", "done", "failed"
    i,            \* the loop variable of main.py:141
    task,         \* per row position, the coroutine of that position
    doneOrder,    \* positions of the current batch in completion order
    answers,      \* the local list answers of __call__
    answerFrom,   \* for each element of answers, the position whose task produced it
    checkpoint,   \* rows of intermediate_results.csv written by this run
    csvAnswers,   \* self.csv['answers']
    hasColumn,    \* whether self.csv has an 'answers' column
    run,          \* number of the run (1 = first)
    faults,       \* number of external calls that have failed so far
    index,        \* self.knowledge_g.index: the documents the engine's index was built from
    csvColumns,   \* the column names of self.csv
    prev,         \* the answers of the previous run, kept when that run began
                  \* with no cache entry for its keys and no unit of work failed
    uploads,      \* the files present in UPLOAD_FOLDER
    apc,          \* position of process_data: "idle", "saved", "validated", "returned"
    request,      \* the form data and file of the request being served
    filepath,     \* the local variable filepath of process_data, or Unbound
    saved,        \* the path this request saved its table under, or Unbound
    status,       \* HTTP status of the response of the request (0: none yet)
    requests      \* number of requests received so far

\* the state of an AllInOne and of the directories it works on
pipelineVars == <<searches, batch_size, max_workers, cache, dataDir, pc, i, task,
                  doneOrder, answers, answerFrom, checkpoint, csvAnswers, hasColumn,
                  run, faults, index, csvColumns, prev>>

\* the state of the /process route
appVars == <<uploads, apc, request, filepath, saved, status, requests>>

vars == <<pipelineVars, appVars>>

N == Len(searches)
Rows == 1..N

Min(a, b) == IF a < b THEN a ELSE b

\* a coroutine object before gather has scheduled it
IdleTask == [pc |-> "idle", result |-> NoResult, hit |-> FALSE, fetch |-> "none",
             queried |-> FALSE, seen |-> {}, raised |-> "none", entry |-> "none"]

\* the columns of the input table (main.py:57); column is one of them (main.py:58)
InputColumns == {"company"}

\* no previous run to compare with
NoPrev == [clean |-> FALSE, answers |-> <<>>]

\* main.py:142, the positions of self.searches[i:i + self.batch_size]
BatchRange_short(lo) == (lo + 1)..Min(lo + batch_size, N - 1)

BatchRange(lo) == (lo + 1)..Min(lo + batch_size, N)

\* sequences of length 0..n over S
SeqsUpTo(S, n) == UNION {[1..m -> S] : m \in 0..n}

(***************************************************************************)
(* Values of the /process route (app.py:78-171).  A file name is kept as   *)
(* its directory part, stem and extension, which is what allowed_file and  *)
(* secure_filename look at.                                                *)
(***************************************************************************)
\* app.py:41
UPLOAD_FOLDER == "uploads"
\* app.py:42
ALLOWED_EXTENSIONS == {"csv"}

EmptyName == [dir |-> "", stem |-> "", ext |-> ""]
Filenames == {EmptyName,
              [dir |-> "", stem |-> "a", ext |-> "csv"],
              [dir |-> "../", stem |-> "a", ext |-> "CSV"],
              [dir |-> "", stem |-> "notes", ext |-> "txt"]}

\* file.filename as a string
Name(f) == f.dir \o f.stem \o (IF f.ext = "" THEN "" ELSE "." \o f.ext)

\* str.lower on the extensions above
lower(ext) == IF ext = "CSV" THEN "csv" ELSE ext

\* app.py:47-49
allowed_file(f) == f.ext # "" /\ lower(f.ext) \in ALLOWED_EXTENSIONS

\* werkzeug's secure_filename (app.py:105): path separators and leading
\* dots are dropped, the base name is kept
secure_filename(f) == f.stem \o (IF f.ext = "" THEN "" ELSE "." \o f.ext)

\* app.py:106 and 118, os.path.join(UPLOAD_FOLDER, filename)
UploadPath(filename) == UPLOAD_FOLDER \o "/" \o filename

\* app.py:117
SheetFilename == "sheet_data.csv"

\* the name filepath before its assignment ('filepath' in locals() is False)
Unbound == "unbound"

\* request.files / request.form of a POST to /process: "file" when a file
\* part is present, else "sheets" when the form has sheetsUrl; a form field
\* that is absent or empty is ""
Requests ==
    {r \in [source : {"file", "sheets", "none"}, filename : Filenames,
            column : {"", "company"}, question : {"", "who is the ceo"}] :
        r.source # "file" => r.filename = EmptyName}

NoRequest == [source |-> "none", filename |-> EmptyName, column |-> "", question |-> ""]

\* app.py:45 and module load: the folder exists, no request is being served
AppInit ==
    /\ uploads = {}
    /\ apc = "idle"
    /\ request = NoRequest
    /\ filepath = Unbound
    /\ saved = Unbound
    /\ status = 0
    /\ requests = 0

(***************************************************************************)
(* Initial states: a constructed AllInOne (main.py:57-70) whose cache      *)
(* directory holds, for each key, nothing, an unreadable file or an        *)
(* Answer left by an earlier run.                                          *)
(***************************************************************************)
InitCommon ==
    /\ batch_size \in 1..MaxBatch
    /\ max_workers \in 1..MaxWorkers
    /\ dataDir = {}
    /\ pc = "loop"
    /\ i = 0
    /\ task = [p \in Rows |-> IdleTask]
    /\ doneOrder = <<>>
    /\ answers = <<>>
    /\ answerFrom = <<>>
    /\ checkpoint = <<>>
    /\ csvAnswers = <<>>
    /\ hasColumn = FALSE
    /\ run = 1
    /\ index = dataDir
    /\ csvColumns = InputColumns
    /\ prev = NoPrev
    /\ AppInit

Init ==
    /\ searches \in SeqsUpTo(Keys, MaxRows)
    /\ faults = 0
    /\ cache \in [CacheFiles -> {NoEntry, Corrupt} \cup AnswerValues]
    /\ InitCommon

(***************************************************************************)
(* main.py:141-143: the next batch is sliced and handed to                 *)
(* _process_batch_async, which creates one coroutine per key               *)
(* (main.py:129) and gathers them.                                         *)
(***************************************************************************)
Dispatch ==
    /\ pc = "loop"
    /\ i < N
    /\ task' = [p \in Rows |-> IF p \in BatchRange(i)
                                THEN [IdleTask EXCEPT !.pc = "pending"]
                                ELSE task[p]]
    /\ doneOrder' = <<>>
    /\ pc' = "gather"
    /\ UNCHANGED <<searches, batch_size, max_workers, cache, dataDir, i, answers,
                   answerFrom, checkpoint, csvAnswers, hasColumn, run, faults,
                   index, csvColumns, prev>>
    /\ UNCHANGED appVars

(***************************************************************************)
(* main.py:102-107: the cache lookup.  The entry is used when the file     *)
(* exists and pickle.load succeeds; a failing load is swallowed            *)
(* (except Exception: pass) and the miss path is taken.                    *)
(***************************************************************************)
CacheReadable_never(entry) == FALSE

CacheReadable_exists(entry) == entry.kind # "absent"

CacheReadable(entry) == entry.kind = "answer"

\* main.py:123-124, the error boundary of the unit of work
except_handler_reraise(search, detail) == Exception(search, detail)

except_handler_bare(search, detail) == [kind |-> "answer", key |-> "", text |-> detail]

except_handler(search, detail) == ErrorString(search, detail)

\* WebScrapper.py:143-173, save_to_markdown writes data/<keyword>.md
save_to_markdown(dir, keyword) == dir \cup {data_file(keyword)}

(***************************************************************************)
(* Outcomes of the external calls of the miss path.                        *)
(*   fetch  main.py:90-96 awaiting extract_top_website_text                *)
(*          (WebScrapper.py:83-141): "saved" when it got as far as         *)
(*          save_to_markdown (WebScrapper.py:134), "raised" when it        *)
(*          raised before that; the exception is swallowed either inside   *)
(*          the scraper (WebScrapper.py:137-139) or by main.py:94-96.      *)
(*          (main.py:93 passes a third argument, the session; against the  *)
(*          two-parameter scraper of WebScrapper.py:83 that call is a      *)
(*          TypeError, which is the outcome "raised" with no suspension:   *)
(*          Start(p) directly followed by Resume(p).)                      *)
(*   query  kg.py:77-93: a text, or an exception of the LLM / graph store. *)
(*   remove main.py:116 os.remove: done or OSError.                        *)
(*   store  main.py:118-119: written, open() raised (file untouched), or   *)
(*          pickle.dump raised after open(..., 'wb') truncated the file.   *)
(***************************************************************************)
FetchOutcomes == {"saved", "raised"}
QueryOutcomes == Answers \cup {"raise"}
RemoveOutcomes == {"ok", "raise"}
StoreOutcomes == {"ok", "open_raise", "dump_raise"}

(***************************************************************************)
(* main.py:90-96, _fetch_website_text: what the unit of work sees of a     *)
(* fetch with outcome f.  Every Exception of the scraper is caught, logged *)
(* and replaced by the return value "".                                    *)
(***************************************************************************)
_fetch_website_text_propagates(f) == IF f = "raised" THEN "raised" ELSE "returned"

_fetch_website_text(f) == "returned"

(***************************************************************************)
(* main.py:109-124 from the return of the fetch to the return of the       *)
(* coroutine, as a function of the outcomes f, q, rm, st of the external   *)
(* calls.  Gives the returned value, the new working directory and cache,  *)
(* the working directory as it was when the engine was queried, and the    *)
(* step that raised.                                                       *)
(***************************************************************************)
process_miss_stores_result(search, f, q, rm, st) ==
    LET cache_file == _get_cache_filename(search)
        r == IF q = "raise" THEN except_handler(search, "query") ELSE Answer(q)
    IN  [result |-> r, dir |-> dataDir,
         cache |-> [cache EXCEPT ![cache_file] = r],
         queried |-> TRUE, seen |-> dataDir,
         raised |-> IF q = "raise" THEN "query" ELSE "none"]

process_miss(search, f, q, rm, st) ==
    LET cache_file == _get_cache_filename(search)
        dir1 == IF f = "saved" THEN save_to_markdown(dataDir, search) ELSE dataDir
        removed == IF data_file(search) \in dir1 /\ rm = "ok"
                      THEN dir1 \ {data_file(search)} ELSE dir1
    IN  IF _fetch_website_text(f) = "raised"
          THEN [result |-> except_handler(search, "fetch"), dir |-> dir1,
                cache |-> cache, queried |-> FALSE, seen |-> {}, raised |-> "fetch"]
        ELSE IF q = "raise"
          THEN [result |-> except_handler(search, "query"), dir |-> dir1,
                cache |-> cache, queried |-> TRUE, seen |-> dir1, raised |-> "query"]
        ELSE IF data_file(search) \in dir1 /\ rm = "raise"
          THEN [result |-> except_handler(search, "remove"), dir |-> dir1,
                cache |-> cache, queried |-> TRUE, seen |-> dir1, raised |-> "remove"]
        ELSE IF st = "open_raise"
          THEN [result |-> except_handler(search, "store"), dir |-> removed,
                cache |-> cache, queried |-> TRUE, seen |-> dir1, raised |-> "store"]
        ELSE IF st = "dump_raise"
          THEN [result |-> except_handler(search, "store"), dir |-> removed,
                cache |-> [cache EXCEPT ![cache_file] = Corrupt],
                queried |-> TRUE, seen |-> dir1, raised |-> "store"]
        ELSE [result |-> Answer(q), dir |-> removed,
              cache |-> [cache EXCEPT ![cache_file] = Answer(q)],
              queried |-> TRUE, seen |-> dir1, raised |-> "none"]

(***************************************************************************)
(* First step of the coroutine of position p (main.py:98-110): the event   *)
(* loop runs the first steps of the gathered tasks in the order gather     *)
(* created them.  On a readable cache entry the coroutine returns it; else *)
(* it suspends in the awaited fetch.                                       *)
(***************************************************************************)
Start(p) ==
    /\ pc = "gather"
    /\ task[p].pc = "pending"
    /\ \A q \in Rows : q < p => task[q].pc # "pending"
    /\ LET entry == cache[_get_cache_filename(searches[p])]
       IN  IF CacheReadable(entry)
             THEN /\ task' = [task EXCEPT ![p].pc = "done", ![p].result = entry,
                                          ![p].hit = TRUE, ![p].entry = entry.kind]
                  /\ doneOrder' = Append(doneOrder, p)
             ELSE /\ task' = [task EXCEPT ![p].pc = "fetching",
                                          ![p].entry = entry.kind]
                  /\ UNCHANGED doneOrder
    /\ UNCHANGED <<searches, batch_size, max_workers, cache, dataDir, pc, i, answers,
                   answerFrom, checkpoint, csvAnswers, hasColumn, run, faults,
                   index, csvColumns, prev>>
    /\ UNCHANGED appVars

(***************************************************************************)
(* Second step of the coroutine of position p (main.py:110-124): the       *)
(* awaited fetch finishes and the rest of the unit of work runs to its     *)
(* return.  Suspended tasks resume in any order, after the first steps of  *)
(* all tasks of the batch.                                                 *)
(***************************************************************************)
Resume(p) ==
    /\ task[p].pc = "fetching"
    /\ \A q \in Rows : task[q].pc # "pending"
    /\ \E f \in FetchOutcomes, q \in QueryOutcomes, rm \in RemoveOutcomes,
          st \in StoreOutcomes :
         LET out == process_miss(searches[p], f, q, rm, st)
             failed == (IF f = "raised" THEN 1 ELSE 0)
                         + (IF out.raised # "none" THEN 1 ELSE 0)
         IN  /\ faults + failed <= MaxFaults
             /\ faults' = faults + failed
             /\ task' = [task EXCEPT ![p].pc = "done", ![p].result = out.result,
                                     ![p].fetch = f, ![p].queried = out.queried,
                                     ![p].seen = out.seen, ![p].raised = out.raised]
             /\ dataDir' = out.dir
             /\ cache' = out.cache
    /\ doneOrder' = Append(doneOrder, p)
    /\ UNCHANGED <<searches, batch_size, max_workers, pc, i, answers, answerFrom,
                   checkpoint, csvAnswers, hasColumn, run, index, csvColumns, prev>>
    /\ UNCHANGED appVars

(***************************************************************************)
(* main.py:130, asyncio.gather: the results in the order of the awaitables *)
(* it was given, here as the row positions whose results it returns.       *)
(***************************************************************************)
gather_as_completed(lo) == doneOrder

gather(lo) == [j \in 1..Cardinality(BatchRange(lo)) |-> lo + j]

\* run_until_complete (main.py:143) returns when every task of the batch has
BatchComplete_any(lo) == \E p \in BatchRange(lo) : task[p].pc = "done"

BatchComplete(lo) == \A p \in BatchRange(lo) : task[p].pc = "done"

\* gather re-raises the exception of a task that raised
GatherRaises(lo) == \E p \in BatchRange(lo) : task[p].result.kind = "exception"

\* main.py:148
ShouldCheckpoint_stride6(lo) == lo % (batch_size * (CheckpointStride + 1)) = 0

ShouldCheckpoint(lo) == lo % (batch_size * CheckpointStride) = 0

\* main.py:149, answers + [''] * (len(self.searches) - len(answers))
Padded_none(ans) == ans

Padded(ans) == ans \o [j \in 1..(N - Len(ans)) |-> Placeholder]

ToCsvOutcomes == {"ok", "raise"}

(***************************************************************************)
(* main.py:143-150: the batch returns, its answers are appended, and on    *)
(* every CheckpointStride-th batch the padded column is assigned and       *)
(* written to intermediate_results.csv.  An exception of gather or of      *)
(* to_csv reaches main.py:154-156, which logs and re-raises.               *)
(***************************************************************************)
Collect ==
    /\ pc = "gather"
    /\ BatchComplete(i) \/ GatherRaises(i)
    /\ IF GatherRaises(i)
         THEN /\ pc' = "failed"
              /\ UNCHANGED <<i, answers, answerFrom, checkpoint, csvAnswers, hasColumn,
                             faults, csvColumns>>
         ELSE LET order == gather(i)
                  batch_answers == [j \in 1..Len(order) |-> task[order[j]].result]
                  all == answers \o batch_answers
              IN  /\ answers' = all
                  /\ answerFrom' = answerFrom \o order
                  /\ IF ShouldCheckpoint(i)
                       THEN /\ csvAnswers' = Padded(all)
                            /\ hasColumn' = TRUE
                            /\ csvColumns' = csvColumns \cup {"answers"}
                            /\ \E w \in ToCsvOutcomes :
                                 IF w = "ok"
                                   THEN /\ checkpoint' = Padded(all)
                                        /\ pc' = "loop"
                                        /\ i' = i + batch_size
                                        /\ UNCHANGED faults
                                   ELSE /\ faults < MaxFaults
                                        /\ faults' = faults + 1
                                        /\ pc' = "failed"
                                        /\ UNCHANGED <<checkpoint, i>>
                       ELSE /\ pc' = "loop"
                            /\ i' = i + batch_size
                            /\ UNCHANGED <<checkpoint, csvAnswers, hasColumn, faults,
                                           csvColumns>>
    /\ UNCHANGED <<searches, batch_size, max_workers, cache, dataDir, task,
                   doneOrder, run, index, prev>>
    /\ UNCHANGED appVars

\* main.py:141 and 152: the loop is exhausted and the column is attached
Finish ==
    /\ pc = "loop"
    /\ i >= N
    /\ csvAnswers' = answers
    /\ hasColumn' = TRUE
    /\ csvColumns' = csvColumns \cup {"answers"}
    /\ pc' = "done"
    /\ UNCHANGED <<searches, batch_size, max_workers, cache, dataDir, i, task,
                   doneOrder, answers, answerFrom, checkpoint, run, faults, index,
                   prev>>
    /\ UNCHANGED appVars

(***************************************************************************)
(* kg.py:48-75, build_knowledge_graph as run by the constructor of a later *)
(* AllInOne (main.py:70): the index pickled in data/kg_cache.pkl by the    *)
(* earlier construction when that file loads (kg.py:55-58), else a new     *)
(* index over the documents now in data/ (kg.py:62-69).  Nothing else      *)
(* assigns self.index; KG.query (kg.py:86) reads it.                       *)
(***************************************************************************)
build_knowledge_graph(pickled, dir) == {pickled, dir}

\* the run that just ended completed, found no cache entry for any of its
\* keys when it first looked them up, and none of its units of work raised
CleanRun ==
    /\ pc = "done"
    /\ \A p \in Rows :
         /\ task[p].raised = "none"
         /\ (\A q \in Rows : q < p => searches[q] # searches[p])
               => task[p].entry = "absent"

(***************************************************************************)
(* A later run over the same input (main.py:193-205, app.py:137-145): a    *)
(* new AllInOne is constructed and called; the cache directory and the     *)
(* working directory are what the earlier run left on disk.                *)
(***************************************************************************)
Rerun ==
    /\ pc \in {"done", "failed"}
    /\ run < MaxRuns
    /\ run' = run + 1
    /\ pc' = "loop"
    /\ i' = 0
    /\ task' = [p \in Rows |-> IdleTask]
    /\ doneOrder' = <<>>
    /\ answers' = <<>>
    /\ answerFrom' = <<>>
    /\ checkpoint' = <<>>
    /\ csvAnswers' = <<>>
    /\ hasColumn' = FALSE
    /\ csvColumns' = InputColumns
    /\ index' \in build_knowledge_graph(index, dataDir)
    /\ prev' = IF CleanRun THEN [clean |-> TRUE, answers |-> csvAnswers] ELSE NoPrev
    /\ UNCHANGED <<searches, batch_size, max_workers, cache, dataDir, faults>>
    /\ UNCHANGED appVars

Next ==
    \/ Dispatch
    \/ \E p \in Rows : Start(p)
    \/ \E p \in Rows : Resume(p)
    \/ Collect
    \/ Finish
    \/ Rerun

Spec == Init /\ [][Next]_vars

(***************************************************************************)
(* The same program on longer inputs of one repeated key, for the          *)
(* properties that need more than CheckpointStride batches.                *)
(***************************************************************************)
InitLong ==
    /\ searches \in SeqsUpTo(LongKeys, MaxRowsLong)
    /\ faults = MaxFaults - MaxFaultsLong
    /\ cache \in [CacheFiles -> {NoEntry} \cup AnswerValues]
    /\ InitCommon

SpecLong == InitLong /\ [][Next]_vars

(***************************************************************************)
(* The program under the scheduling the event loop gives: a ready step of  *)
(* a coroutine is run, an awaited external call returns or raises, and the *)
(* loop of __call__ goes on.  Starting another run is up to the caller and *)
(* is not assumed.                                                         *)
(***************************************************************************)
Fairness ==
    /\ WF_vars(Dispatch)
    /\ WF_vars(\E p \in Rows : Start(p))
    /\ WF_vars(\E p \in Rows : Resume(p))
    /\ WF_vars(Collect)
    /\ WF_vars(Finish)

FairSpec == Init /\ [][Next]_vars /\ Fairness

(***************************************************************************)
(* The /process route, app.py:78-171.                                      *)
(*                                                                         *)
(* app.py:166-171, the except branch of process_data: the file at          *)
(* filepath is removed when filepath is bound and the file exists; rm is   *)
(* the outcome of that os.remove, whose exception leaves the handler and   *)
(* the file.                                                               *)
(***************************************************************************)
except_cleanup(dir, path, rm) ==
    IF path # Unbound /\ path \in dir /\ rm = "ok" THEN dir \ {path} ELSE dir

SaveOutcomes == {"ok", "read_raise", "write_raise"}
ProcessOutcomes == {"ok", "raise"}

(***************************************************************************)
(* app.py:95-122: a request arrives and its table is saved.  A request     *)
(* without file and sheet URL, with an empty file name or with a file type *)
(* that is not allowed is answered 400 before anything is saved.  io is    *)
(* the outcome of the external calls: "read_raise" when the sheet cannot   *)
(* be downloaded (app.py:112-116, filepath still unbound), "write_raise"   *)
(* when file.save or df.to_csv raises (app.py:107, 119; the file may or    *)
(* may not have been created); both end in the except branch.              *)
(***************************************************************************)
save_upload ==
    /\ apc \in {"idle", "returned"}
    /\ requests < MaxRequests
    /\ requests' = requests + 1
    /\ \E req \in Requests, io \in SaveOutcomes, partial \in BOOLEAN,
          rm \in RemoveOutcomes :
         /\ io = "read_raise" => req.source = "sheets"
         /\ request' = req
         /\ IF \/ req.source = "none"
               \/ req.source = "file" /\ Name(req.filename) = ""
               \/ req.source = "file" /\ ~allowed_file(req.filename)
              THEN /\ status' = 400
                   /\ apc' = "returned"
                   /\ filepath' = Unbound
                   /\ saved' = Unbound
                   /\ UNCHANGED uploads
              ELSE LET path == IF req.source = "file"
                                 THEN UploadPath(secure_filename(req.filename))
                                 ELSE UploadPath(SheetFilename)
                   IN  CASE io = "ok" ->
                              /\ uploads' = uploads \cup {path}
                              /\ filepath' = path
                              /\ saved' = path
                              /\ status' = 0
                              /\ apc' = "saved"
                         [] io = "read_raise" ->
                              /\ uploads' = except_cleanup(uploads, Unbound, rm)
                              /\ filepath' = Unbound
                              /\ saved' = Unbound
                              /\ status' = 500
                              /\ apc' = "returned"
                         [] io = "write_raise" ->
                              /\ uploads' = except_cleanup(
                                               IF partial THEN uploads \cup {path}
                                                          ELSE uploads, path, rm)
                              /\ filepath' = path
                              /\ saved' = Unbound
                              /\ status' = 500
                              /\ apc' = "returned"
    /\ UNCHANGED pipelineVars

(***************************************************************************)
(* app.py:124-130: the form fields column and question are required; a     *)
(* missing one is answered 400 by a return inside the try, so neither      *)
(* app.py:157 nor the except branch runs.                                  *)
(***************************************************************************)
validate ==
    /\ apc = "saved"
    /\ IF request.column = "" \/ request.question = ""
         THEN /\ status' = 400
              /\ apc' = "returned"
         ELSE /\ apc' = "validated"
              /\ UNCHANGED status
    /\ UNCHANGED <<uploads, request, filepath, saved, requests>>
    /\ UNCHANGED pipelineVars

(***************************************************************************)
(* app.py:132-171: an AllInOne is constructed on the saved table and       *)
(* called, the result is rendered, and the saved file is removed           *)
(* (app.py:157).  out = "raise" is an exception of app.py:132-151 (int(),  *)
(* the constructor, processor(), to_csv), rm the outcome of the first      *)
(* os.remove that runs and rm2 that of the one in the except branch when   *)
(* app.py:157 itself raised.                                               *)
(***************************************************************************)
process ==
    /\ apc = "validated"
    /\ \E out \in ProcessOutcomes, rm \in RemoveOutcomes, rm2 \in RemoveOutcomes :
         IF out = "ok" /\ rm = "ok"
           THEN /\ uploads' = uploads \ {filepath}
                /\ status' = 200
           ELSE /\ uploads' = except_cleanup(uploads, filepath,
                                             IF out = "ok" THEN rm2 ELSE rm)
                /\ status' = 500
    /\ apc' = "returned"
    /\ UNCHANGED <<request, filepath, saved, requests>>
    /\ UNCHANGED pipelineVars

NextApp ==
    \/ save_upload
    \/ validate
    \/ process

\* the route before any AllInOne has been constructed
InitApp ==
    /\ searches = <<>>
    /\ faults = 0
    /\ cache = [f \in CacheFiles |-> NoEntry]
    /\ InitCommon
    /\ batch_size = 1
    /\ max_workers = 1

SpecApp == InitApp /\ [][NextApp]_vars

(***************************************************************************)
(* Derived notions used by the properties.                                 *)
(***************************************************************************)
\* offset of the batch that row position p belongs to
BatchLo(p) == ((p - 1) \div batch_size) * batch_size

\* units of work that have begun and not returned
InFlight == {p \in Rows : task[p].pc = "fetching"}

\* answers this run has computed: collected ones and those of finished
\* tasks of the batch being gathered
Computed ==
    Len(answers)
      + (IF pc = "gather"
           THEN Cardinality({p \in BatchRange(i) : task[p].pc = "done"})
           ELSE 0)

\* rows of the latest checkpoint of this run that hold an answer
Checkpointed == Cardinality({r \in 1..Len(checkpoint) : checkpoint[r] # Placeholder})

(***************************************************************************)
(* C1: in every state the answer collected at row position r is the value  *)
(* returned by the unit of work that ran for position r, and the column    *)
(* attached on completion is that list, one entry per row, whatever the    *)
(* order in which the tasks of a batch completed.                          *)
(***************************************************************************)
C1_OrderPreserved ==
    /\ Len(answers) = Len(answerFrom)
    /\ \A r \in 1..Len(answers) : answerFrom[r] = r /\ answers[r] = task[r].result
    /\ pc = "done" => /\ Len(csvAnswers) = N
                      /\ \A r \in Rows : csvAnswers[r] = task[r].result

\* a finished run whose last batch completed out of row order with different results
C1_Witness ==
    /\ pc = "done"
    /\ Len(doneOrder) = 2
    /\ doneOrder[1] > doneOrder[2]
    /\ task[doneOrder[1]].result # task[doneOrder[2]].result

C3_ErrorBoundary ==
    \A p \in Rows :
        task[p].pc = "done" =>
            /\ task[p].result.kind # "exception"
            /\ task[p].raised # "none" =>
                   task[p].result = ErrorString(searches[p], task[p].raised)
            /\ task[p].raised = "none" => task[p].result.kind = "answer"

\* one batch with a key whose step raised next to a key whose fetch raised
\* and which still got its answer
C3_Witness ==
    \E p \in Rows : \E q \in Rows :
        /\ p # q
        /\ BatchLo(p) = BatchLo(q)
        /\ task[p].pc = "done" /\ task[q].pc = "done"
        /\ task[p].raised # "none" /\ task[p].result.kind = "error"
        /\ task[q].fetch = "raised" /\ task[q].result.kind = "answer"

\* C3 as stated: a raise in the fetch, answer, cleanup or store step gives
\* the error string
C3_Original ==
    \A p \in Rows :
        (task[p].pc = "done" /\ (task[p].fetch = "raised" \/ task[p].raised # "none"))
            => task[p].result.kind = "error"

(***************************************************************************)
(* C4: a unit of work that starts while the cache file of its key holds a  *)
(* readable Answer returns exactly that Answer in its first step, without  *)
(* a fetch or a query and without touching cache or working directory; and *)
(* two units of work of one key that were both served from the cache       *)
(* returned the identical Answer.                                          *)
(***************************************************************************)
C4_CacheHit ==
    [][ /\ \A p \in Rows :
             ( /\ task[p].pc = "pending"
               /\ task'[p].pc # "pending"
               /\ cache[_get_cache_filename(searches[p])].kind = "answer" )
             => /\ task'[p].pc = "done"
                /\ task'[p].result = cache[_get_cache_filename(searches[p])]
                /\ task'[p].fetch = "none"
                /\ ~task'[p].queried
                /\ cache' = cache
                /\ dataDir' = dataDir
        /\ \A p \in Rows : \A q \in Rows :
             (task'[p].hit /\ task'[q].hit /\ searches[p] = searches[q])
                => task'[p].result = task'[q].result ]_vars

\* the same key served from the cache twice
C4_Witness ==
    \E p \in Rows : \E q \in Rows :
        /\ p < q
        /\ searches[p] = searches[q]
        /\ task[p].hit /\ task[q].hit
        /\ task[p].pc = "done" /\ task[q].pc = "done"
        /\ task[q].result.kind = "answer"
        /\ ~task[q].queried

C6_BatchesSequential ==
    \A p \in Rows :
        task[p].pc # "idle" =>
            \A q \in Rows :
                q <= BatchLo(p) =>
                    /\ task[q].pc = "done"
                    /\ q <= Len(answers)
                    /\ answers[q] = task[q].result

\* a unit of work of a second batch in flight
C6_Witness ==
    \E p \in Rows :
        /\ p > batch_size
        /\ task[p].pc = "fetching"
        /\ Len(answers) = BatchLo(p)

C8_AtMostStrideBatchesLost ==
    /\ Computed - Checkpointed <= CheckpointStride * batch_size
    /\ ( /\ pc = "loop"
         /\ i > 0
         /\ ((i \div batch_size) - 1) % CheckpointStride = 0 )
       => /\ Len(checkpoint) = N
          /\ \A r \in 1..Len(answers) : checkpoint[r] = answers[r]

\* CheckpointStride whole batches computed since the latest checkpoint
C8_Witness ==
    /\ Len(checkpoint) = N
    /\ Checkpointed = batch_size
    /\ Computed - Checkpointed = CheckpointStride * batch_size

\* C8 as stated: at most one batch of computed answers is absent from the
\* latest checkpoint
C8_Original == Computed - Checkpointed <= batch_size

(***************************************************************************)
(* C9: every checkpoint written has exactly N rows, the answers collected  *)
(* so far at the first positions and the placeholder at every other; one   *)
(* is written after the first batch.                                       *)
(***************************************************************************)
C9_CheckpointShape ==
    [][ /\ (checkpoint' # checkpoint /\ run' = run)
             => /\ Len(checkpoint') = N
                /\ \A r \in Rows :
                     checkpoint'[r] = IF r <= Len(answers') THEN answers'[r]
                                                            ELSE Placeholder
        /\ (pc' = "loop" /\ i' = batch_size)
             => /\ Len(checkpoint') = N
                /\ \A r \in Rows :
                     checkpoint'[r] = IF r <= Len(answers') THEN answers'[r]
                                                            ELSE Placeholder ]_vars

\* the checkpoint after the first batch of an input longer than one batch
C9_Witness ==
    /\ pc = "loop"
    /\ i = batch_size
    /\ N > batch_size
    /\ Len(checkpoint) = N
    /\ checkpoint[1] = answers[1]
    /\ checkpoint[N] = Placeholder

(***************************************************************************)
(* C10: a failing checkpoint write never aborts the run.                   *)
(***************************************************************************)
C10_CheckpointFailureTolerated == pc # "failed"

(***************************************************************************)
(* C11: a unit of work whose cache store raised still returns the Answer   *)
(* the engine gave it.                                                     *)
(***************************************************************************)
C11_StoreFailureKeepsAnswer ==
    \A p \in Rows :
        (task[p].pc = "done" /\ task[p].raised = "store") => task[p].result.kind = "answer"

(***************************************************************************)
(* C12: a unit of work that found a corrupt cache file is not served from  *)
(* it and does not fail on it: it suspends in the fetch, and when it       *)
(* returns it has fetched and queried, and unless a later step raised it   *)
(* returns the Answer it has just computed and stored.                     *)
(***************************************************************************)
C12_CorruptTreatedAsAbsent ==
    [][ \A p \in Rows :
          task'[p].entry = "corrupt" =>
            /\ ~task'[p].hit
            /\ task'[p].pc \in {"fetching", "done"}
            /\ (task[p].pc = "fetching" /\ task'[p].pc = "done") =>
                 /\ task'[p].fetch # "none"
                 /\ task'[p].queried
                 /\ task'[p].raised = "none" =>
                      /\ task'[p].result.kind = "answer"
                      /\ cache'[_get_cache_filename(searches[p])] = task'[p].result ]_vars

\* a unit of work that met a corrupt entry and returned a fresh answer
C12_Witness ==
    \E p \in Rows :
        /\ task[p].entry = "corrupt"
        /\ task[p].pc = "done"
        /\ task[p].queried
        /\ task[p].result.kind = "answer"
        /\ cache[_get_cache_filename(searches[p])] = task[p].result

C15_FetchFailureNotFatal ==
    [][ \A p \in Rows :
          (task[p].pc = "fetching" /\ task'[p].pc = "done" /\ task'[p].fetch = "raised")
             => /\ task'[p].queried
                /\ task'[p].raised # "fetch"
                /\ task'[p].raised = "none" =>
                     /\ task'[p].result.kind = "answer"
                     /\ cache'[_get_cache_filename(searches[p])] = task'[p].result ]_vars

\* a unit of work whose fetch raised and whose answer is returned and cached
C15_Witness ==
    \E p \in Rows :
        /\ task[p].pc = "done"
        /\ task[p].fetch = "raised"
        /\ task[p].queried
        /\ task[p].result.kind = "answer"
        /\ cache[_get_cache_filename(searches[p])] = task[p].result

C19_OutputShape ==
    pc = "done" =>
        /\ hasColumn
        /\ csvColumns = InputColumns \cup {"answers"}
        /\ Len(csvAnswers) = N
        /\ \A r \in Rows :
             /\ csvAnswers[r].kind \in {"answer", "error"}
             /\ csvAnswers[r].kind = "error" <=> task[r].raised # "none"

\* a completed run with a failed row next to a row that has its answer
C19_Witness ==
    /\ pc = "done"
    /\ \E r \in Rows : csvAnswers[r].kind = "error" /\ task[r].raised # "none"
    /\ \E r \in Rows : csvAnswers[r].kind = "answer"

(***************************************************************************)
(* C20: every run reaches normal completion with all N answers attached.   *)
(***************************************************************************)
C20_RunCompletes ==
    \A r \in 1..MaxRuns :
        (run = r) ~> (run = r /\ pc = "done" /\ hasColumn /\ Len(csvAnswers) = N)

(***************************************************************************)
(* C21: the batch loop cuts the N row positions into consecutive batches   *)
(* of batch_size, the last one possibly shorter.  A unit of work is        *)
(* started only from a coroutine that has not run in this run and only     *)
(* for a position of the batch being dispatched, a finished one is never   *)
(* started again in the run, and whenever the loop is between batches or   *)
(* has ended, after k = i / batch_size batches, exactly min(N, k *         *)
(* batch_size) answers are collected: the positions up to there have       *)
(* returned and no later one has been started.                             *)
(***************************************************************************)
C21_ConsecutiveBatches ==
    [][ /\ \A p \in Rows :
             /\ (task[p].pc # "pending" /\ task'[p].pc = "pending")
                  => /\ task[p].pc = "idle"
                     /\ i < p /\ p <= i + batch_size
                     /\ BatchLo(p) = i
             /\ (task[p].pc = "done" /\ run' = run) => task'[p].pc = "done"
        /\ pc' \in {"loop", "done"}
             => /\ i' % batch_size = 0
                /\ Len(answers') = Min(N, i')
                /\ \A p \in Rows :
                     task'[p].pc = IF p <= Min(N, i') THEN "done" ELSE "idle"
        /\ pc' = "done" => Len(answers') = N ]_vars

\* a finished run of several batches whose last batch was shorter
C21_Witness ==
    /\ pc = "done"
    /\ N > batch_size
    /\ N % batch_size # 0
    /\ Len(answers) = N
    /\ i = ((N \div batch_size) + 1) * batch_size

(***************************************************************************)
(* C22: no cache file ever holds an error string.  A step that writes an   *)
(* Answer into the cache file of a key is the return of a unit of work of  *)
(* that key whose engine query returned that Answer, and a unit of work    *)
(* served from the cache returns an engine result.                         *)
(***************************************************************************)
C22_NoErrorCached ==
    [][ /\ \A f \in CacheFiles :
             /\ cache'[f].kind \in {"absent", "corrupt", "answer"}
             /\ (cache'[f] # cache[f] /\ cache'[f].kind = "answer")
                  => \E p \in Rows :
                        /\ _get_cache_filename(searches[p]) = f
                        /\ task[p].pc = "fetching" /\ task'[p].pc = "done"
                        /\ task'[p].queried
                        /\ task'[p].result = cache'[f]
                        /\ cache'[f] \in AnswerValues
        /\ \A p \in Rows :
             task'[p].hit => task'[p].result \in AnswerValues ]_vars

\* a unit of work returned an error string, its key has no readable entry,
\* and another row was served from the cache
C22_Witness ==
    \E p \in Rows : \E q \in Rows :
        /\ task[p].pc = "done"
        /\ task[p].raised # "none"
        /\ task[p].result.kind = "error"
        /\ cache[_get_cache_filename(searches[p])].kind # "answer"
        /\ task[q].hit
        /\ task[q].result.kind = "answer"

(***************************************************************************)
(* C23: when a /process request that saved its table under uploads/ has    *)
(* returned, with whatever status, the saved file is no longer there.      *)
(***************************************************************************)
C23_UploadRemoved ==
    (apc = "returned" /\ saved # Unbound) => saved \notin uploads

====
